---- MODULE Spec2Model ----
(***************************************************************************)
(* Wallet / order / ledger behaviour of the SMM panel.                     *)
(*                                                                         *)
(* The database tables users, orders and transactions are shared state.    *)
(* Every API route handler runs one request against them.  The browser     *)
(* components (ServiceBrowser, UserManagement, OrderManagement) run their  *)
(* handlers as a sequence of awaited requests; each await is a point where *)
(* other sessions' requests interleave.                                    *)
(*                                                                         *)
(* Money is counted in whole currency units.  The inputs are chosen so     *)
(* that (quantity / 1000) * rate is a whole number, for which the          *)
(* floating point arithmetic of the source is exact.                       *)
(***************************************************************************)
EXTENDS Integers, Sequences, FiniteSets, TLC

\* ---- bounds of the model ------------------------------------------------
MaxUsers == 2
MaxOrders == 2
MaxWrites == 4
MaxBalance == 3
MaxRows == 101
MaxServices == 2

\* ---- sessions ------------------------------------------------------------
UserSessions == {"u1", "u2"}
AdminSessions == {"a1", "a2"}

\* clients of the routes other than the dashboards
Clients == {"c1", "c2"}

\* the sessions that act under each specification
MainAdmins == {"a1"}

\* the account each browser session is logged in as (session.id of the cookie)
SessionUserId == [s \in UserSessions |-> 1]

\* ---- JavaScript values -----------------------------------------------------
\* a numeric field of a JSON body: a number, absent, or not a number
Num(n) == [type |-> "number", value |-> n]

Undefined == [type |-> "undefined", value |-> 0]

NaN == [type |-> "NaN", value |-> 0]

parseFloat(x) == IF x.type = "number" THEN x ELSE NaN

isNaN(x) == x.type # "number"

\* a NULL id column; the AUTOINCREMENT ids start at 1
Null == 0

\* a field of a JSON body, Undefined when the body does not carry it
Field(body, name) == IF name \in DOMAIN body THEN body[name] ELSE Undefined

\* ---- strings --------------------------------------------------------------
\* An email address is the sequence of its characters.  The alphabet of the
\* model has the capitals A and B.
toLowerCase(s) ==
  [i \in 1 .. Len(s) |->
     IF s[i] = "A" THEN "a" ELSE IF s[i] = "B" THEN "b" ELSE s[i]]

RECURSIVE trim(_)
trim(s) ==
  IF s = <<>> THEN s
  ELSE IF Head(s) = " " THEN trim(Tail(s))
  ELSE IF s[Len(s)] = " " THEN trim(SubSeq(s, 1, Len(s) - 1))
  ELSE s

\* /^[^\s@]+@[^\s@]+\.[^\s@]+$/ : one @, not first; a dot after it, neither
\* next to it nor last; no white space
isValidEmail(email) ==
  \E i, j \in 1 .. Len(email) :
    /\ 1 < i /\ i + 1 < j /\ j < Len(email)
    /\ email[i] = "@" /\ email[j] = "."
    /\ \A k \in 1 .. Len(email) : k # i => email[k] \notin {" ", "@"}

\* bcrypt.hash and bcrypt.compare: the hash is not the password, and only the
\* password it was made from matches it
bcryptHash(password) == [bcrypt |-> password]

bcryptCompare(password, hash) == hash = bcryptHash(password)

\* excludePassword that returns the row as it is
excludePassword_Keep(user) == user

\* excludePassword: the row without its password column
excludePassword(user) == [f \in DOMAIN user \ {"password"} |-> user[f]]

\* ---- program constants -----------------------------------------------------
VALID_STATUSES ==
  {"PENDING", "PROCESSING", "COMPLETED", "CANCELLED", "PARTIAL", "REFUNDED"}

VALID_TRANSACTION_TYPES == {"DEPOSIT", "ORDER", "REFUND", "ADMIN_ADJUSTMENT"}

\* statuses offered by the select of the order update dialog
StatusOptions == {"PENDING", "PROCESSING", "COMPLETED", "CANCELLED", "PARTIAL"}

\* statuses of a user and of a service
USER_STATUSES == {"ACTIVE", "SUSPENDED", "BANNED"}

SERVICE_STATUSES == {"ACTIVE", "INACTIVE"}

\* the seeded services table: one active service, rate per 1000 units
FirstServices ==
  1 :> [id |-> 1, rate |-> 1, minOrder |-> 1000, maxOrder |-> 2000,
        status |-> "ACTIVE"]

\* ---- inputs ----------------------------------------------------------------
Quantities == {500, 1000, 2000, 3000}
Amounts == {1, 2}
\* quantity and charge of the body of an order request made outside the
\* components: a quantity below minOrder with a charge that is not
\* quantity / 1000 * rate
BodyOrders == {[quantity |-> 500, charge |-> 2]}

\* the link of an order form
Link == <<"l">>

\* the address and the password of the n-th account of a run
EmailOf(n) == <<<<"a", "b", "c", "d">>[n], "@", "x", ".", "y">>

PasswordOf(n) == <<"secret1", "secret2", "secret3", "secret4">>[n]

\* the limit parameter of a list request: absent, zero, negative, below, at and
\* above the cap
Limits == {Undefined, Num(0), Num(-1), Num(5), Num(100), Num(150)}

\* the balance field of a request body: absent, not a number, negative, zero
\* and the largest balance of the model
BodyBalances == {Undefined, NaN, Num(-1), Num(0), Num(MaxBalance)}

\* addresses as typed: of the first account in capitals, a new one with white
\* space around it, the same in capitals, and one without a dot
RawEmails ==
  {<<"A", "@", "x", ".", "y">>, <<" ", "b", "@", "x", ".", "y", " ">>,
   <<"B", "@", "x", ".", "y">>, <<"b", "@", "x">>}

\* passwords as typed: of the first account, of another account, too short
RawPasswords == {"secret1", "secret2", "short"}

\* addresses typed into the login form: of the first account and of the one
\* created second, neither as stored
LoginEmails == {<<"A", "@", "x", ".", "y">>, <<" ", "b", "@", "x", ".", "y", " ">>}

\* bodies of a user update: a new status, a new password, a new address
BodyUserUpdates ==
  {[status |-> "SUSPENDED"], [password |-> "secret2"],
   [email |-> <<"B", "@", "x", ".", "y">>]}

\* bodies of a user update that set the address
BodyEmailUpdates ==
  {[email |-> <<"B", "@", "x", ".", "y">>], [email |-> <<"A", "@", "x", ".", "y">>]}

\* bodies of a service update: a column alone, within and outside its range
BodyServiceUpdates ==
  {[rate |-> Num(0)], [rate |-> Num(2)], [minOrder |-> Num(0)],
   [minOrder |-> Num(1500)], [maxOrder |-> Num(1500)], [maxOrder |-> Num(1000)],
   [status |-> "INACTIVE"]}

\* bodies of a service creation: valid, without a rate, with maxOrder = minOrder
BodyServices ==
  {[rate |-> Num(2), minOrder |-> Num(1000), maxOrder |-> Num(3000)],
   [minOrder |-> Num(1000), maxOrder |-> Num(3000)],
   [rate |-> Num(2), minOrder |-> Num(1000), maxOrder |-> Num(1000),
    status |-> "INACTIVE"]}

\* bodies of an order update: the columns the route sets, and columns it does
\* not
BodyOrderUpdates ==
  {[status |-> "PROCESSING", startCount |-> Num(10), remains |-> Num(990)],
   [providerOrderId |-> <<" ", "p">>],
   [remains |-> NaN],
   [charge |-> Num(3), quantity |-> Num(3000), userId |-> 2, remains |-> Num(5)]}

\* type and amount of the body of a ledger request
BodyEntries ==
  {[type |-> "ORDER", amount |-> Num(1)], [type |-> "DEPOSIT", amount |-> Num(-1)],
   [type |-> "REFUND", amount |-> Num(-1)], [type |-> "DEPOSIT", amount |-> Num(1)],
   [type |-> "DEPOSIT", amount |-> Num(0)]}

VARIABLES
  users,             \* users table: id -> [id, email, password, status, balance]
  nextUserId,        \* AUTOINCREMENT counter of the users table
  services,          \* services table: id -> [id, rate, minOrder, maxOrder, status]
  uServices,         \* ServiceBrowser `services` state: the list it fetched
  inflight,          \* per client: the request a route handler is serving,
                     \* between its read of the tables and its write
  response,          \* per client: the last response it received
  orders,            \* orders table: sequence, the id is the index
  transactions,      \* transactions table: set of rows
  nextTransactionId, \* AUTOINCREMENT counter of the transactions table
  uPc,               \* ServiceBrowser.handleOrderSubmit: position per session
  uUser,             \* UserDashboard `user` state: the snapshot from /api/auth/me
  uOrder,            \* handleOrderSubmit locals: [order, charge], and the
                     \* balance the users table held when the handler was
                     \* called (history: no handler reads it)
  aPc,               \* admin handlers: position per session
  editingUser,       \* UserManagement: the listed row the admin acts on
  editingOrder,      \* OrderManagement: the listed row the admin acts on
  aLocal,            \* locals of the running admin handler
  writes,            \* number of write requests the routes have served
  page               \* the last list response: [limit requested, rows returned]

vars == <<users, orders, transactions, nextTransactionId, uPc, uUser, uOrder,
          aPc, editingUser, editingOrder, aLocal, writes, page,
          nextUserId, services, uServices, inflight, response>>

db == <<users, orders, transactions, nextTransactionId>>
userSide == <<uPc, uUser, uOrder>>
adminSide == <<aPc, editingUser, editingOrder, aLocal>>
\* the state of the accounts, of the catalogue and of the other clients
other == <<nextUserId, services, uServices, inflight, response>>

NoOrder == [order |-> 0, charge |-> 0, stored |-> 0]
NoLocal == [userId |-> 0, orderId |-> 0, amount |-> 0,
            balanceBefore |-> 0, balanceAfter |-> 0]
NoPage == [limit |-> Undefined, rows |-> 0]
NoRequest == [route |-> "none"]
NoCookie == [token |-> [id |-> Null, email |-> <<>>]]
NoResponse == [status |-> 0, success |-> FALSE, body |-> {}, cookie |-> NoCookie]
NoUserRow == [id |-> 0, email |-> <<>>, status |-> "none", balance |-> 0]
NoOrderRow == [id |-> 0, userId |-> 0, serviceId |-> 0, link |-> <<>>,
               quantity |-> 0, charge |-> 0, startCount |-> Undefined,
               remains |-> Undefined, status |-> "none", providerOrderId |-> <<>>]

\* ---- ledger helpers --------------------------------------------------------
RECURSIVE SumAmounts(_)
SumAmounts(S) ==
  IF S = {} THEN 0
  ELSE LET t == CHOOSE x \in S : TRUE IN t.amount + SumAmounts(S \ {t})

Entries(uid) == {t \in transactions : t.userId = uid}

EntriesOf(oid, type) == {t \in transactions : t.orderId = oid /\ t.type = type}

\* ---- /api/users ------------------------------------------------------------
\* A request body is a record of the fields it carries.  An absent email is
\* <<>>, an absent password "", an absent status "undefined".
Has(body, name) == name \in DOMAIN body /\ body[name] # Undefined

\* the result of a request that stores nothing
UsersRejected(status) ==
  [status |-> status, users |-> users, nextUserId |-> nextUserId, body |-> {}]

\* GET ?id= : the stored row without its password
UsersGET(id) == excludePassword(users[id])

\* GET without id: every row without its password
UsersList == {excludePassword(users[u]) : u \in DOMAIN users}

\* POST up to the insert: the validation of the body and the uniqueness check
\* of the email; 0 when the request passes them
UsersPOSTCheck(body) ==
  IF body.email = <<>> \/ body.password = "" THEN 400
  ELSE IF ~isValidEmail(trim(body.email)) THEN 400
  ELSE IF Len(body.password) < 6 THEN 400
  ELSE IF body.status # "undefined" /\ body.status \notin USER_STATUSES THEN 400
  ELSE IF body.balance # Undefined
          /\ (isNaN(parseFloat(body.balance)) \/ parseFloat(body.balance).value < 0)
  THEN 400
  ELSE IF \E u \in DOMAIN users : users[u].email = trim(toLowerCase(body.email))
  THEN 400
  ELSE 0

\* POST: userData
UsersPOSTData(body) ==
  [email |-> trim(toLowerCase(body.email)),
   password |-> bcryptHash(body.password),
   status |-> IF body.status # "undefined" THEN body.status ELSE "ACTIVE",
   balance |-> IF body.balance # Undefined
               THEN parseFloat(body.balance).value ELSE 0]

\* UsersInsert on a table without the unique index
UsersInsert_NoIndex(userData) ==
  LET row == [id |-> nextUserId, email |-> userData.email,
              password |-> userData.password, status |-> userData.status,
              balance |-> userData.balance]
  IN [status |-> 201, users |-> (nextUserId :> row) @@ users,
      nextUserId |-> nextUserId + 1, body |-> {excludePassword(row)}]

\* db.insert(users).values(userData).returning(): the unique index on email
\* makes the insert of a stored email throw, which the catch block answers
\* with 500
UsersInsert(userData) ==
  IF \E u \in DOMAIN users : users[u].email = userData.email
  THEN UsersRejected(500)
  ELSE LET row == [id |-> nextUserId, email |-> userData.email,
                   password |-> userData.password, status |-> userData.status,
                   balance |-> userData.balance]
       IN [status |-> 201, users |-> (nextUserId :> row) @@ users,
           nextUserId |-> nextUserId + 1, body |-> {excludePassword(row)}]

\* POST served without another request in between
UsersPOST(body) ==
  IF UsersPOSTCheck(body) # 0 THEN UsersRejected(UsersPOSTCheck(body))
  ELSE UsersInsert(UsersPOSTData(body))

\* UsersPUTCheck without the sign test of the balance validation
UsersPUTCheck_NoSignTest(id, body) ==
  IF id \notin DOMAIN users THEN 404
  ELSE IF "email" \in DOMAIN body /\ ~isValidEmail(trim(body.email)) THEN 400
  ELSE IF "email" \in DOMAIN body
          /\ \E u \in DOMAIN users :
               u # id /\ users[u].email = trim(toLowerCase(body.email))
  THEN 400
  ELSE IF "password" \in DOMAIN body /\ Len(body.password) < 6 THEN 400
  ELSE IF "status" \in DOMAIN body /\ body.status \notin USER_STATUSES THEN 400
  ELSE IF Has(body, "balance") /\ isNaN(parseFloat(body.balance)) THEN 400
  ELSE 0

\* PUT ?id= up to the update: the row must exist, the fields of the body are
\* validated, the email must be the email of no other row; 0 when the request
\* passes
UsersPUTCheck(id, body) ==
  IF id \notin DOMAIN users THEN 404
  ELSE IF "email" \in DOMAIN body /\ ~isValidEmail(trim(body.email)) THEN 400
  ELSE IF "email" \in DOMAIN body
          /\ \E u \in DOMAIN users :
               u # id /\ users[u].email = trim(toLowerCase(body.email))
  THEN 400
  ELSE IF "password" \in DOMAIN body /\ Len(body.password) < 6 THEN 400
  ELSE IF "status" \in DOMAIN body /\ body.status \notin USER_STATUSES THEN 400
  ELSE IF Has(body, "balance")
          /\ (isNaN(parseFloat(body.balance)) \/ parseFloat(body.balance).value < 0)
  THEN 400
  ELSE 0

\* PUT: updateData, the columns the body names
UsersPUTData(body) ==
  [f \in {g \in {"email", "password", "status", "balance"} :
            IF g = "balance" THEN Has(body, g) ELSE g \in DOMAIN body} |->
     CASE f = "email" -> trim(toLowerCase(body.email))
       [] f = "password" -> bcryptHash(body.password)
       [] f = "status" -> body.status
       [] f = "balance" -> parseFloat(body.balance).value]

\* .set(updateData) on one row
Updated(row, updateData) ==
  [f \in DOMAIN row |-> IF f \in DOMAIN updateData THEN updateData[f] ELSE row[f]]

\* UsersUpdate whose UPDATE has lost its WHERE clause: every row is updated
UsersUpdate_NoWhere(id, updateData) ==
  IF id \notin DOMAIN users THEN UsersRejected(500)
  ELSE IF "email" \in DOMAIN updateData
          /\ \E u \in DOMAIN users : u # id /\ users[u].email = updateData.email
  THEN UsersRejected(500)
  ELSE [status |-> 200,
        users |-> [u \in DOMAIN users |-> Updated(users[u], updateData)],
        nextUserId |-> nextUserId,
        body |-> {excludePassword(Updated(users[id], updateData))}]

\* db.update(users).set(updateData).where(eq(users.id, id)).returning(): the
\* unique index makes the update to a stored email throw; when the row is
\* gone, excludePassword(updatedUser[0]) throws; the catch block answers 500
UsersUpdate(id, updateData) ==
  IF id \notin DOMAIN users THEN UsersRejected(500)
  ELSE IF "email" \in DOMAIN updateData
          /\ \E u \in DOMAIN users : u # id /\ users[u].email = updateData.email
  THEN UsersRejected(500)
  ELSE [status |-> 200,
        users |-> [users EXCEPT ![id] = Updated(users[id], updateData)],
        nextUserId |-> nextUserId,
        body |-> {excludePassword(Updated(users[id], updateData))}]

\* PUT served without another request in between
UsersPUT(id, body) ==
  IF UsersPUTCheck(id, body) # 0 THEN UsersRejected(UsersPUTCheck(id, body))
  ELSE UsersUpdate(id, UsersPUTData(body))

\* DELETE ?id= : the row is looked up, deleted and returned without its
\* password.  With the foreign keys of the schema enforced, the delete of a
\* row that an order or a ledger entry references throws.
UsersDELETE(id, enforced) ==
  IF id \notin DOMAIN users THEN UsersRejected(404)
  ELSE IF enforced /\ (\/ \E i \in DOMAIN orders : orders[i].userId = id
                       \/ \E t \in transactions : t.userId = id)
  THEN UsersRejected(500)
  ELSE [status |-> 200,
        users |-> [u \in DOMAIN users \ {id} |-> users[u]],
        nextUserId |-> nextUserId,
        body |-> {excludePassword(users[id])}]

\* ---- lib/auth ---------------------------------------------------------------
\* UserPayload of a stored row
UserPayload(user) == [id |-> user.id, email |-> user.email]

\* generateToken and setAuthCookie: the cookie carries the signed payload
generateToken(payload) == [token |-> payload]

\* the result of a login or of a registration that fails
AuthFailure(usersNow, nextNow) ==
  [success |-> FALSE, status |-> 0, body |-> {}, cookie |-> NoCookie,
   users |-> usersNow, nextUserId |-> nextNow]

\* login without the test of the status of the account
login_NoStatusTest(email, password) ==
  LET user == {u \in DOMAIN users : users[u].email = trim(toLowerCase(email))}
  IN IF user = {} THEN AuthFailure(users, nextUserId)
     ELSE LET u == CHOOSE x \in user : TRUE
          IN IF ~bcryptCompare(password, users[u].password)
             THEN AuthFailure(users, nextUserId)
             ELSE [success |-> TRUE, status |-> 0,
                   body |-> {UserPayload(users[u])},
                   cookie |-> generateToken(UserPayload(users[u])),
                   users |-> users, nextUserId |-> nextUserId]

\* login: the row of the email is read; a missing row, a password that does
\* not match and a status other than ACTIVE each return success: false; else
\* the token is generated and set as the auth cookie
login(email, password) ==
  LET user == {u \in DOMAIN users : users[u].email = trim(toLowerCase(email))}
  IN IF user = {} THEN AuthFailure(users, nextUserId)
     ELSE LET u == CHOOSE x \in user : TRUE
          IN IF ~bcryptCompare(password, users[u].password)
             THEN AuthFailure(users, nextUserId)
             ELSE IF users[u].status # "ACTIVE"
             THEN AuthFailure(users, nextUserId)
             ELSE [success |-> TRUE, status |-> 0,
                   body |-> {UserPayload(users[u])},
                   cookie |-> generateToken(UserPayload(users[u])),
                   users |-> users, nextUserId |-> nextUserId]

\* register up to the insert: is the email stored already?
registerCheck(email) ==
  \E u \in DOMAIN users : users[u].email = trim(toLowerCase(email))

\* register: the values of the insert
registerData(email, password) ==
  [email |-> trim(toLowerCase(email)), password |-> bcryptHash(password),
   status |-> "ACTIVE", balance |-> 0]

\* register from the insert on: the insert, then the token and the cookie;
\* an insert that throws is caught and returns success: false
registerInsert(userData) ==
  LET res == UsersInsert(userData)
  IN IF res.status # 201 THEN AuthFailure(users, nextUserId)
     ELSE [success |-> TRUE, status |-> 0,
           body |-> {UserPayload(res.users[nextUserId])},
           cookie |-> generateToken(UserPayload(res.users[nextUserId])),
           users |-> res.users, nextUserId |-> res.nextUserId]

\* ---- /api/services ---------------------------------------------------------
\* the result of a request that stores nothing
ServicesRejected(status) == [status |-> status, services |-> services]

\* POST: rate, minOrder and maxOrder are required, rate > 0, minOrder > 0,
\* maxOrder > minOrder, the status (default ACTIVE) ACTIVE or INACTIVE; then
\* one row is inserted
ServicesPOST(body) ==
  LET rate == Field(body, "rate")
      minOrder == Field(body, "minOrder")
      maxOrder == Field(body, "maxOrder")
  IN IF rate = Undefined \/ minOrder = Undefined \/ maxOrder = Undefined
     THEN ServicesRejected(400)
     ELSE IF rate.value <= 0 \/ minOrder.value <= 0
             \/ maxOrder.value <= minOrder.value
     THEN ServicesRejected(400)
     ELSE IF "status" \in DOMAIN body /\ body.status \notin SERVICE_STATUSES
     THEN ServicesRejected(400)
     ELSE LET id == Cardinality(DOMAIN services) + 1
          IN [status |-> 201,
              services |-> (id :> [id |-> id, rate |-> rate.value,
                                   minOrder |-> minOrder.value,
                                   maxOrder |-> maxOrder.value,
                                   status |-> IF "status" \in DOMAIN body
                                              THEN body.status ELSE "ACTIVE"])
                           @@ services]

\* PUT ?id= up to the update: the row is read, rate and minOrder of the body
\* must be positive, and maxOrder must exceed minOrder, each taken from the body
\* or else from the row that was read; 0 when the request passes
ServicesPUTCheck(id, body) ==
  IF id \notin DOMAIN services THEN 404
  ELSE
    LET existingService == services[id]
        rate == Field(body, "rate")
        minOrder == Field(body, "minOrder")
        maxOrder == Field(body, "maxOrder")
        finalMinOrder == IF minOrder # Undefined THEN minOrder.value
                         ELSE existingService.minOrder
        finalMaxOrder == IF maxOrder # Undefined THEN maxOrder.value
                         ELSE existingService.maxOrder
    IN IF rate # Undefined /\ rate.value <= 0 THEN 400
       ELSE IF minOrder # Undefined /\ minOrder.value <= 0 THEN 400
       ELSE IF finalMaxOrder <= finalMinOrder THEN 400
       ELSE IF "status" \in DOMAIN body /\ body.status \notin SERVICE_STATUSES
       THEN 400
       ELSE 0

\* PUT: updates, the columns the body names
ServicesPUTData(body) ==
  [f \in DOMAIN body \cap {"rate", "minOrder", "maxOrder", "status"} |->
     IF f = "status" THEN body.status ELSE body[f].value]

\* db.update(services).set(updates).where(eq(services.id, id))
ServicesUpdate(id, updates) ==
  [status |-> 200,
   services |-> [services EXCEPT ![id] = Updated(services[id], updates)]]

\* PUT served without another request in between
ServicesPUT(id, body) ==
  IF ServicesPUTCheck(id, body) # 0
  THEN ServicesRejected(ServicesPUTCheck(id, body))
  ELSE ServicesUpdate(id, ServicesPUTData(body))

\* GET ?status=ACTIVE : the rows whose status is ACTIVE
ServicesGETActive ==
  [id \in {i \in DOMAIN services : services[i].status = "ACTIVE"} |-> services[id]]

\* ---- /api/orders -----------------------------------------------------------
\* the result of a request that stores nothing
OrdersRejected(status) == [status |-> status, orders |-> orders, id |-> 0]

\* an integer column that a body may set: parseInt of the field, NULL
\* (Undefined) when the body does not carry a number
IntColumn(body, name) ==
  IF Field(body, name).type = "number" THEN Field(body, name) ELSE Undefined

\* OrdersPOST without the lookup of the user
OrdersPOST_NoUserLookup(body) ==
  LET orderStatus == IF body.status = "undefined" THEN "PENDING" ELSE body.status
  IN IF \/ body.userId = 0 \/ body.serviceId = 0
        \/ trim(body.link) = <<>>
        \/ body.quantity = Undefined \/ body.charge = Undefined
        \/ isNaN(body.quantity) \/ body.quantity.value <= 0
        \/ isNaN(parseFloat(body.charge)) \/ parseFloat(body.charge).value <= 0
        \/ orderStatus \notin VALID_STATUSES
        \/ body.serviceId \notin DOMAIN services
     THEN OrdersRejected(400)
     ELSE LET id == Len(orders) + 1
          IN [status |-> 201, id |-> id,
              orders |-> Append(orders,
                           [id |-> id, userId |-> body.userId,
                            serviceId |-> body.serviceId,
                            link |-> trim(body.link),
                            quantity |-> body.quantity.value,
                            charge |-> parseFloat(body.charge).value,
                            startCount |-> IntColumn(body, "startCount"),
                            remains |-> IntColumn(body, "remains"),
                            status |-> orderStatus,
                            providerOrderId |->
                              IF "providerOrderId" \in DOMAIN body
                              THEN trim(body.providerOrderId) ELSE <<>>])]

\* POST: quantity and charge must be positive, the status (default PENDING) one
\* of VALID_STATUSES, the user and the service must exist; then one row is
\* inserted with the quantity and the charge of the body
OrdersPOST(body) ==
  LET orderStatus == IF body.status = "undefined" THEN "PENDING" ELSE body.status
  IN IF \/ body.userId = 0 \/ body.serviceId = 0
        \/ trim(body.link) = <<>>
        \/ body.quantity = Undefined \/ body.charge = Undefined
        \/ isNaN(body.quantity) \/ body.quantity.value <= 0
        \/ isNaN(parseFloat(body.charge)) \/ parseFloat(body.charge).value <= 0
        \/ orderStatus \notin VALID_STATUSES
        \/ body.userId \notin DOMAIN users
        \/ body.serviceId \notin DOMAIN services
     THEN OrdersRejected(400)
     ELSE LET id == Len(orders) + 1
          IN [status |-> 201, id |-> id,
              orders |-> Append(orders,
                           [id |-> id, userId |-> body.userId,
                            serviceId |-> body.serviceId,
                            link |-> trim(body.link),
                            quantity |-> body.quantity.value,
                            charge |-> parseFloat(body.charge).value,
                            startCount |-> IntColumn(body, "startCount"),
                            remains |-> IntColumn(body, "remains"),
                            status |-> orderStatus,
                            providerOrderId |->
                              IF "providerOrderId" \in DOMAIN body
                              THEN trim(body.providerOrderId) ELSE <<>>])]

\* OrdersPUT whose update sets every column the body names
OrdersPUT_SetBody(id, body) ==
  IF id \notin DOMAIN orders
  THEN [status |-> 404, orders |-> orders]
  ELSE IF "status" \in DOMAIN body /\ body.status # "undefined"
          /\ body.status \notin VALID_STATUSES
  THEN [status |-> 400, orders |-> orders]
  ELSE IF \E f \in {"startCount", "remains"} :
            Field(body, f) # Undefined /\ isNaN(Field(body, f))
  THEN [status |-> 400, orders |-> orders]
  ELSE [status |-> 200,
        orders |-> [orders EXCEPT ![id] =
                      Updated(orders[id],
                              [f \in {g \in DOMAIN body : g \in DOMAIN orders[id]
                                        /\ ~(g = "status" /\ body[g] = "undefined")} |->
                                 IF f \in {"status", "link", "providerOrderId",
                                           "userId", "serviceId",
                                           "startCount", "remains"}
                                 THEN body[f] ELSE body[f].value])]]

\* PUT ?id= : the row must exist; status, startCount, remains and
\* providerOrderId of the body are validated and set, nothing else is
OrdersPUT(id, body) ==
  IF id \notin DOMAIN orders
  THEN [status |-> 404, orders |-> orders]
  ELSE IF "status" \in DOMAIN body /\ body.status # "undefined"
          /\ body.status \notin VALID_STATUSES
  THEN [status |-> 400, orders |-> orders]
  ELSE IF \E f \in {"startCount", "remains"} :
            Field(body, f) # Undefined /\ isNaN(Field(body, f))
  THEN [status |-> 400, orders |-> orders]
  ELSE [status |-> 200,
        orders |-> [orders EXCEPT ![id] =
                      Updated(orders[id],
                              [f \in {g \in {"status", "startCount", "remains",
                                             "providerOrderId"} :
                                        /\ g \in DOMAIN body
                                        /\ ~(g = "status" /\ body[g] = "undefined")} |->
                                 CASE f = "status" -> body.status
                                   [] f = "providerOrderId" -> trim(body.providerOrderId)
                                   [] OTHER -> body[f]])]]

\* ---- /api/transactions -----------------------------------------------------
\* TransactionsPOST as an insert-or-replace keyed on the account and the order
TransactionsPOST_Replace(body) ==
  IF \/ body.userId = 0
     \/ body.amount = Undefined
     \/ body.balanceBefore = Undefined \/ body.balanceAfter = Undefined
     \/ body.type \notin VALID_TRANSACTION_TYPES
     \/ body.amount = Num(0)
  THEN [status |-> 400, transactions |-> transactions,
        nextTransactionId |-> nextTransactionId]
  ELSE [status |-> 201,
        transactions |->
          {t \in transactions :
             t.userId # body.userId \/ t.orderId # body.orderId} \cup
          {[id |-> nextTransactionId, userId |-> body.userId,
            type |-> body.type, amount |-> parseFloat(body.amount).value,
            balanceBefore |-> parseFloat(body.balanceBefore).value,
            balanceAfter |-> parseFloat(body.balanceAfter).value,
            orderId |-> body.orderId]},
        nextTransactionId |-> nextTransactionId + 1]

\* POST: the fields are checked, then one row is inserted
TransactionsPOST(body) ==
  IF \/ body.userId = 0
     \/ body.amount = Undefined
     \/ body.balanceBefore = Undefined \/ body.balanceAfter = Undefined
     \/ body.type \notin VALID_TRANSACTION_TYPES
     \/ body.amount = Num(0)
  THEN [status |-> 400, transactions |-> transactions,
        nextTransactionId |-> nextTransactionId]
  ELSE [status |-> 201,
        transactions |-> transactions \cup
          {[id |-> nextTransactionId, userId |-> body.userId,
            type |-> body.type, amount |-> parseFloat(body.amount).value,
            balanceBefore |-> parseFloat(body.balanceBefore).value,
            balanceAfter |-> parseFloat(body.balanceAfter).value,
            orderId |-> body.orderId]},
        nextTransactionId |-> nextTransactionId + 1]

TransactionsDELETE(id) ==
  IF \A t \in transactions : t.id # id
  THEN [status |-> 404, transactions |-> transactions]
  ELSE [status |-> 200, transactions |-> {t \in transactions : t.id # id}]

\* ---- list requests ----------------------------------------------------------
\* const limit = Math.min(parseInt(searchParams.get('limit') ?? '10'), 100)
ListLimit(param) ==
  LET requested == IF param = Undefined THEN 10 ELSE param.value
  IN IF requested < 100 THEN requested ELSE 100

\* query.limit(limit) on `count` matching rows: the number of rows returned.
\* A negative LIMIT of SQLite has no upper bound.  For limit 0 the query
\* builder sends LIMIT 0 or drops the clause, by its version.
Limited(count, limit, dropped) ==
  IF limit < 0 THEN count
  ELSE IF limit = 0 THEN (IF dropped THEN count ELSE 0)
  ELSE IF count < limit THEN count ELSE limit

\* GET /api/orders without id
OrdersGET(param, dropped) == Limited(Len(orders), ListLimit(param), dropped)

\* GET /api/transactions without id
TransactionsGET(param, dropped) ==
  Limited(Cardinality(transactions), ListLimit(param), dropped)

\* ---- bounding the runs -----------------------------------------------------
\* a run serves at most MaxWrites write requests (POST, PUT, DELETE)
Served == writes < MaxWrites /\ writes' = writes + 1

\* ---- Init ------------------------------------------------------------------
\* the rows of the two initial states
FirstUser(balance) ==
  1 :> [id |-> 1, email |-> EmailOf(1), password |-> bcryptHash(PasswordOf(1)),
        status |-> "ACTIVE", balance |-> balance]

FirstAdjustment ==
  [id |-> 1, userId |-> 1, type |-> "ADMIN_ADJUSTMENT", amount |-> 2,
   balanceBefore |-> 0, balanceAfter |-> 2, orderId |-> Null]

FirstOrder ==
  [id |-> 1, userId |-> 1, serviceId |-> 1, link |-> Link, quantity |-> 1000,
   charge |-> 1, startCount |-> Undefined, remains |-> Undefined,
   status |-> "PENDING", providerOrderId |-> <<>>]

FirstCharge ==
  [id |-> 2, userId |-> 1, type |-> "ORDER", amount |-> -1,
   balanceBefore |-> 2, balanceAfter |-> 1, orderId |-> 1]

\* every dashboard mounted, no handler running
Mounted(balance) ==
  /\ uPc = [s \in UserSessions |-> "idle"]
  /\ uUser = [s \in UserSessions |-> excludePassword(FirstUser(balance)[1])]
  /\ uServices = [s \in UserSessions |-> FirstServices]
  /\ inflight = [c \in Clients |-> NoRequest]
  /\ response = [c \in Clients |-> NoResponse]
  /\ uOrder = [s \in UserSessions |-> NoOrder]
  /\ aPc = [a \in AdminSessions |-> "idle"]
  /\ editingUser = [a \in AdminSessions |-> NoUserRow]
  /\ editingOrder = [a \in AdminSessions |-> NoOrderRow]
  /\ aLocal = [a \in AdminSessions |-> NoLocal]
  /\ writes = 0
  /\ page = NoPage

\* User 1 registered (register() stores balance 0) and the admin added 2 to the
\* wallet: handleBalanceUpdate run to its end.
Init ==
  /\ users = FirstUser(2)
  /\ nextUserId = 2
  /\ services = FirstServices
  /\ orders = <<>>
  /\ transactions = {FirstAdjustment}
  /\ nextTransactionId = 2
  /\ Mounted(2)

\* The same, after the user ordered 1000 units of service 1: handleOrderSubmit
\* run to its end.
InitOrdered ==
  /\ users = FirstUser(1)
  /\ nextUserId = 2
  /\ services = FirstServices
  /\ orders = <<FirstOrder>>
  /\ transactions = {FirstAdjustment, FirstCharge}
  /\ nextTransactionId = 3
  /\ Mounted(1)

\* ---- ServiceBrowser.handleOrderSubmit --------------------------------------
Charge(quantity, rate) == (quantity * rate) \div 1000

\* validation, charge computation, balance check against the `user` prop,
\* then POST /api/orders
handleOrderSubmit(s, serviceId, quantity) ==
  LET selectedService == uServices[s][serviceId]
      user == uUser[s]
      charge == Charge(quantity, selectedService.rate)
      res == OrdersPOST([userId |-> user.id, serviceId |-> selectedService.id,
                         link |-> Link, quantity |-> Num(quantity),
                         charge |-> Num(charge), status |-> "PENDING"])
  IN /\ uPc[s] = "idle"
     /\ serviceId \in DOMAIN uServices[s]
     /\ selectedService.status = "ACTIVE"
     /\ Len(orders) < MaxOrders
     /\ IF quantity < selectedService.minOrder
           \/ quantity > selectedService.maxOrder
        THEN UNCHANGED vars
        ELSE IF charge > user.balance
        THEN UNCHANGED vars
        ELSE IF res.status # 201
        THEN Served /\ UNCHANGED <<db, userSide, adminSide, page, other>>
        ELSE /\ Served
             /\ orders' = res.orders
             /\ uPc' = [uPc EXCEPT ![s] = "deduct"]
             /\ uOrder' = [uOrder EXCEPT ![s] =
                             [order |-> res.id, charge |-> charge,
                              stored |-> users[user.id].balance]]
             /\ UNCHANGED <<users, transactions, nextTransactionId, uUser,
                            adminSide, page, other>>

\* PUT /api/users?id= with balance: user.balance - charge; the response is not read
OrderDeductBalance(s) ==
  LET user == uUser[s]
      newBalance == user.balance - uOrder[s].charge
      res == UsersPUT(user.id, [balance |-> Num(newBalance)])
  IN /\ uPc[s] = "deduct"
     /\ Served
     /\ users' = res.users
     /\ uPc' = [uPc EXCEPT ![s] = "log"]
     /\ UNCHANGED <<orders, transactions, nextTransactionId, uUser, uOrder,
                    adminSide, page, other>>

\* POST /api/transactions of type ORDER; the response is not read
OrderCreateTransaction(s) ==
  LET user == uUser[s]
      charge == uOrder[s].charge
      newBalance == user.balance - charge
      res == TransactionsPOST([userId |-> user.id, type |-> "ORDER",
                               amount |-> Num(0 - charge),
                               balanceBefore |-> Num(user.balance),
                               balanceAfter |-> Num(newBalance),
                               orderId |-> uOrder[s].order])
  IN /\ uPc[s] = "log"
     /\ Served
     /\ transactions' = res.transactions
     /\ nextTransactionId' = res.nextTransactionId
     /\ uPc' = [uPc EXCEPT ![s] = "refresh"]
     /\ uOrder' = [uOrder EXCEPT ![s] = NoOrder]
     /\ UNCHANGED <<users, orders, uUser, adminSide, page, other>>

\* UserDashboard.fetchUser: on mount and as onOrderPlaced
fetchUser(s) ==
  /\ uPc[s] \in {"idle", "refresh"}
  /\ SessionUserId[s] \in DOMAIN users
  /\ uUser' = [uUser EXCEPT ![s] = excludePassword(users[SessionUserId[s]])]
  /\ uPc' = [uPc EXCEPT ![s] = "idle"]
  /\ UNCHANGED <<db, uOrder, adminSide, writes, page, other>>

\* ---- UserManagement ---------------------------------------------------------
\* The admin dashboard shows one tab at a time and each tab fetches its list
\* when it is mounted.  A handler reads one row of the list only, so the list
\* is kept as the row the admin acts on, with the values it had when fetched.

\* fetchUsers on mount, then the wallet button of a row: setEditingUser(user)
selectUser(a, userId) ==
  /\ aPc[a] = "idle"
  /\ userId \in DOMAIN users
  /\ editingUser' = [editingUser EXCEPT ![a] = excludePassword(users[userId])]
  /\ editingOrder' = [editingOrder EXCEPT ![a] = NoOrderRow]
  /\ UNCHANGED <<db, userSide, aPc, aLocal, writes, page, other>>

\* handleBalanceUpdate up to its first await: the new balance is computed from
\* editingUser, then PUT /api/users?id=
handleBalanceUpdate(a, type, amount) ==
  LET newBalance == IF type = "add" THEN editingUser[a].balance + amount
                    ELSE editingUser[a].balance - amount
      userRes == UsersPUT(editingUser[a].id, [balance |-> Num(newBalance)])
  IN /\ aPc[a] = "idle"
     /\ editingUser[a] # NoUserRow
     /\ newBalance <= MaxBalance
     /\ IF newBalance < 0
        THEN UNCHANGED vars
        ELSE IF userRes.status # 200
        THEN Served /\ UNCHANGED <<db, userSide, adminSide, page, other>>
        ELSE /\ Served
             /\ users' = userRes.users
             /\ aPc' = [aPc EXCEPT ![a] = "adjLog"]
             /\ aLocal' = [aLocal EXCEPT ![a] =
                             [userId |-> editingUser[a].id, orderId |-> Null,
                              amount |-> IF type = "add" THEN amount ELSE 0 - amount,
                              balanceBefore |-> editingUser[a].balance,
                              balanceAfter |-> newBalance]]
             /\ UNCHANGED <<orders, transactions, nextTransactionId, userSide,
                            editingUser, editingOrder, page, other>>

\* POST /api/transactions of type ADMIN_ADJUSTMENT; the response is not read;
\* then setEditingUser(null)
BalanceCreateTransaction(a) ==
  LET l == aLocal[a]
      res == TransactionsPOST([userId |-> l.userId, type |-> "ADMIN_ADJUSTMENT",
                               amount |-> Num(l.amount),
                               balanceBefore |-> Num(l.balanceBefore),
                               balanceAfter |-> Num(l.balanceAfter),
                               orderId |-> Null])
  IN /\ aPc[a] = "adjLog"
     /\ Served
     /\ transactions' = res.transactions
     /\ nextTransactionId' = res.nextTransactionId
     /\ aPc' = [aPc EXCEPT ![a] = "refresh"]
     /\ aLocal' = [aLocal EXCEPT ![a] = NoLocal]
     /\ editingUser' = [editingUser EXCEPT ![a] = NoUserRow]
     /\ UNCHANGED <<users, orders, userSide, editingOrder, page, other>>

\* fetchUsers / fetchData at the end of a handler: the list is replaced
fetchData(a) ==
  /\ aPc[a] = "refresh"
  /\ aPc' = [aPc EXCEPT ![a] = "idle"]
  /\ editingUser' = [editingUser EXCEPT ![a] = NoUserRow]
  /\ editingOrder' = [editingOrder EXCEPT ![a] = NoOrderRow]
  /\ UNCHANGED <<db, userSide, aLocal, writes, page, other>>

\* ---- OrderManagement --------------------------------------------------------
\* fetchData on mount, then a button of a row of the orders table
selectOrder(a, orderId) ==
  /\ aPc[a] = "idle"
  /\ orderId \in DOMAIN orders
  /\ editingOrder' = [editingOrder EXCEPT ![a] = orders[orderId]]
  /\ editingUser' = [editingUser EXCEPT ![a] = NoUserRow]
  /\ UNCHANGED <<db, userSide, aPc, aLocal, writes, page, other>>

\* handleStatusUpdate: PUT /api/orders?id= with the status of the dialog
handleStatusUpdate(a, status) ==
  LET res == OrdersPUT(editingOrder[a].id, [status |-> status])
  IN /\ aPc[a] = "idle"
     /\ editingOrder[a] # NoOrderRow
     /\ IF res.status # 200
        THEN Served /\ UNCHANGED <<db, userSide, adminSide, page, other>>
        ELSE /\ Served
             /\ orders' = res.orders
             /\ aPc' = [aPc EXCEPT ![a] = "refresh"]
             /\ UNCHANGED <<users, transactions, nextTransactionId, userSide,
                            editingUser, editingOrder, aLocal, page, other>>

\* handleRefund up to the second await: the Refund button is shown for a listed
\* order that is PENDING or PROCESSING; GET /api/users?id= gives userData
handleRefund(a) ==
  LET order == editingOrder[a]
      userData == UsersGET(order.userId)
      newBalance == userData.balance + order.charge
  IN /\ aPc[a] = "idle"
     /\ order # NoOrderRow
     /\ order.status \in {"PENDING", "PROCESSING"}
     /\ order.userId \in DOMAIN users
     /\ newBalance <= MaxBalance
     /\ aPc' = [aPc EXCEPT ![a] = "refPut"]
     /\ aLocal' = [aLocal EXCEPT ![a] =
                     [userId |-> order.userId, orderId |-> order.id,
                      amount |-> order.charge,
                      balanceBefore |-> userData.balance,
                      balanceAfter |-> newBalance]]
     /\ UNCHANGED <<db, userSide, editingUser, editingOrder, writes, page, other>>

\* PUT /api/users?id= with balance: userData.balance + order.charge
RefundUpdateBalance(a) ==
  LET l == aLocal[a]
      res == UsersPUT(l.userId, [balance |-> Num(l.balanceAfter)])
  IN /\ aPc[a] = "refPut"
     /\ Served
     /\ users' = res.users
     /\ aPc' = [aPc EXCEPT ![a] = "refLog"]
     /\ UNCHANGED <<orders, transactions, nextTransactionId, userSide,
                    editingUser, editingOrder, aLocal, page, other>>

\* POST /api/transactions of type REFUND
RefundCreateTransaction(a) ==
  LET l == aLocal[a]
      res == TransactionsPOST([userId |-> l.userId, type |-> "REFUND",
                               amount |-> Num(l.amount),
                               balanceBefore |-> Num(l.balanceBefore),
                               balanceAfter |-> Num(l.balanceAfter),
                               orderId |-> l.orderId])
  IN /\ aPc[a] = "refLog"
     /\ Served
     /\ transactions' = res.transactions
     /\ nextTransactionId' = res.nextTransactionId
     /\ aPc' = [aPc EXCEPT ![a] = "refStatus"]
     /\ UNCHANGED <<users, orders, userSide, editingUser, editingOrder, aLocal, page, other>>

\* PUT /api/orders?id= with status REFUNDED
RefundUpdateStatus(a) ==
  LET res == OrdersPUT(aLocal[a].orderId, [status |-> "REFUNDED"])
  IN /\ aPc[a] = "refStatus"
     /\ Served
     /\ orders' = res.orders
     /\ aPc' = [aPc EXCEPT ![a] = "refresh"]
     /\ aLocal' = [aLocal EXCEPT ![a] = NoLocal]
     /\ UNCHANGED <<users, transactions, nextTransactionId, userSide,
                    editingUser, editingOrder, page, other>>

\* ---- requests made outside the components ----------------------------------
\* the routes check no session: any client may send them
RequestUsersPOST(balance) ==
  LET res == UsersPOST([email |-> EmailOf(nextUserId),
                        password |-> PasswordOf(nextUserId),
                        status |-> "undefined", balance |-> balance])
  IN /\ nextUserId <= MaxUsers
     /\ Served
     /\ users' = res.users
     /\ nextUserId' = res.nextUserId
     /\ UNCHANGED <<orders, transactions, nextTransactionId, userSide, adminSide,
                    page, services, uServices, inflight, response>>

RequestUsersPUT(id, balance) ==
  LET res == UsersPUT(id, [balance |-> balance])
  IN /\ Served
     /\ users' = res.users
     /\ UNCHANGED <<orders, transactions, nextTransactionId, userSide, adminSide, page, other>>

RequestOrdersPOST(userId, serviceId, quantity, charge) ==
  LET res == OrdersPOST([userId |-> userId, serviceId |-> serviceId, link |-> Link,
                         quantity |-> Num(quantity), charge |-> Num(charge),
                         status |-> "undefined"])
  IN /\ Len(orders) < MaxOrders
     /\ Served
     /\ orders' = res.orders
     /\ UNCHANGED <<users, transactions, nextTransactionId, userSide, adminSide, page, other>>

RequestTransactionsDELETE(id) ==
  LET res == TransactionsDELETE(id)
  IN /\ Served
     /\ transactions' = res.transactions
     /\ UNCHANGED <<users, orders, nextTransactionId, userSide, adminSide, page, other>>

RequestOrdersGET(param, dropped) ==
  /\ page' = [limit |-> param, rows |-> OrdersGET(param, dropped)]
  /\ UNCHANGED <<db, userSide, adminSide, writes, other>>

RequestTransactionsGET(param, dropped) ==
  /\ page' = [limit |-> param, rows |-> TransactionsGET(param, dropped)]
  /\ UNCHANGED <<db, userSide, adminSide, writes, other>>

RequestOrdersPUT(id, body) ==
  LET res == OrdersPUT(id, body)
  IN /\ Served
     /\ orders' = res.orders
     /\ UNCHANGED <<users, transactions, nextTransactionId, userSide, adminSide, page, other>>

RequestTransactionsPOST(body) ==
  LET res == TransactionsPOST(body)
  IN /\ Served
     /\ transactions' = res.transactions
     /\ nextTransactionId' = res.nextTransactionId
     /\ UNCHANGED <<users, orders, userSide, adminSide, page, other>>

\* ---- the accounts --------------------------------------------------------------
\* the response of the users route to client c
UsersResponse(c, res) ==
  [response EXCEPT ![c] = [status |-> res.status, success |-> res.status < 300,
                           body |-> res.body, cookie |-> NoCookie]]

\* the response of login and register to client c
AuthResponse(c, res) ==
  [response EXCEPT ![c] = [status |-> res.status, success |-> res.success,
                           body |-> res.body, cookie |-> res.cookie]]

\* GET /api/users?id=
RequestUsersGET(c, id) ==
  /\ inflight[c] = NoRequest
  /\ response' = UsersResponse(c, IF id \in DOMAIN users
                                  THEN [status |-> 200, body |-> {UsersGET(id)}]
                                  ELSE [status |-> 404, body |-> {}])
  /\ UNCHANGED <<db, userSide, adminSide, writes, page, nextUserId, services,
                 uServices, inflight>>

\* GET /api/users
RequestUsersList(c) ==
  /\ inflight[c] = NoRequest
  /\ response' = UsersResponse(c, [status |-> 200, body |-> UsersList])
  /\ UNCHANGED <<db, userSide, adminSide, writes, page, nextUserId, services,
                 uServices, inflight>>

\* POST /api/users up to `await bcrypt.hash`: the body is validated and the
\* email looked up; requests of other clients are served before the insert
UsersPOSTRead(c, body) ==
  /\ inflight[c] = NoRequest
  /\ nextUserId <= MaxUsers
  /\ Served
  /\ IF UsersPOSTCheck(body) # 0
     THEN /\ response' = UsersResponse(c, UsersRejected(UsersPOSTCheck(body)))
          /\ UNCHANGED inflight
     ELSE /\ inflight' = [inflight EXCEPT ![c] =
                            [route |-> "UsersPOST", id |-> Null,
                             data |-> UsersPOSTData(body)]]
          /\ UNCHANGED response
  /\ UNCHANGED <<db, userSide, adminSide, page, nextUserId, services, uServices>>

\* the insert of the handler and its response
UsersPOSTWrite(c) ==
  LET res == UsersInsert(inflight[c].data)
  IN /\ inflight[c].route = "UsersPOST"
     /\ users' = res.users
     /\ nextUserId' = res.nextUserId
     /\ response' = UsersResponse(c, res)
     /\ inflight' = [inflight EXCEPT ![c] = NoRequest]
     /\ UNCHANGED <<orders, transactions, nextTransactionId, userSide, adminSide,
                    writes, page, services, uServices>>

\* PUT /api/users?id= up to the update: the row and the email are looked up
UsersPUTRead(c, id, body) ==
  /\ inflight[c] = NoRequest
  /\ Served
  /\ IF UsersPUTCheck(id, body) # 0
     THEN /\ response' = UsersResponse(c, UsersRejected(UsersPUTCheck(id, body)))
          /\ UNCHANGED inflight
     ELSE /\ inflight' = [inflight EXCEPT ![c] =
                            [route |-> "UsersPUT", id |-> id,
                             data |-> UsersPUTData(body)]]
          /\ UNCHANGED response
  /\ UNCHANGED <<db, userSide, adminSide, page, nextUserId, services, uServices>>

\* the update of the handler and its response
UsersPUTWrite(c) ==
  LET res == UsersUpdate(inflight[c].id, inflight[c].data)
  IN /\ inflight[c].route = "UsersPUT"
     /\ users' = res.users
     /\ response' = UsersResponse(c, res)
     /\ inflight' = [inflight EXCEPT ![c] = NoRequest]
     /\ UNCHANGED <<orders, transactions, nextTransactionId, userSide, adminSide,
                    writes, page, nextUserId, services, uServices>>

\* DELETE /api/users?id=
RequestUsersDELETE(c, id, enforced) ==
  LET res == UsersDELETE(id, enforced)
  IN /\ inflight[c] = NoRequest
     /\ Served
     /\ users' = res.users
     /\ response' = UsersResponse(c, res)
     /\ UNCHANGED <<orders, transactions, nextTransactionId, userSide, adminSide,
                    page, nextUserId, services, uServices, inflight>>

\* register up to `await bcrypt.hash`
registerRead(c, email, password) ==
  /\ inflight[c] = NoRequest
  /\ nextUserId <= MaxUsers
  /\ Served
  /\ IF registerCheck(email)
     THEN /\ response' = AuthResponse(c, AuthFailure(users, nextUserId))
          /\ UNCHANGED inflight
     ELSE /\ inflight' = [inflight EXCEPT ![c] =
                            [route |-> "register", id |-> Null,
                             data |-> registerData(email, password)]]
          /\ UNCHANGED response
  /\ UNCHANGED <<db, userSide, adminSide, page, nextUserId, services, uServices>>

\* the insert of register, the cookie and the result
registerWrite(c) ==
  LET res == registerInsert(inflight[c].data)
  IN /\ inflight[c].route = "register"
     /\ users' = res.users
     /\ nextUserId' = res.nextUserId
     /\ response' = AuthResponse(c, res)
     /\ inflight' = [inflight EXCEPT ![c] = NoRequest]
     /\ UNCHANGED <<orders, transactions, nextTransactionId, userSide, adminSide,
                    writes, page, services, uServices>>

\* login called for client c
RequestLogin(c, email, password) ==
  /\ inflight[c] = NoRequest
  /\ response' = AuthResponse(c, login(email, password))
  /\ UNCHANGED <<db, userSide, adminSide, writes, page, nextUserId, services,
                 uServices, inflight>>

\* ---- the service catalogue --------------------------------------------------
\* ServiceBrowser.fetchServices, on mount: GET /api/services?status=ACTIVE
fetchServices(s) ==
  /\ uPc[s] = "idle"
  /\ uServices' = [uServices EXCEPT ![s] = ServicesGETActive]
  /\ UNCHANGED <<db, userSide, adminSide, writes, page, nextUserId, services,
                 inflight, response>>

RequestServicesPOST(body) ==
  LET res == ServicesPOST(body)
  IN /\ Cardinality(DOMAIN services) < MaxServices
     /\ Served
     /\ services' = res.services
     /\ UNCHANGED <<db, userSide, adminSide, page, nextUserId, uServices,
                    inflight, response>>

\* PUT /api/services?id= up to `await request.json()` and the validation: the
\* handler has read the row; requests of other clients are served before it
\* writes
ServicesPUTRead(c, id, body) ==
  /\ inflight[c] = NoRequest
  /\ Served
  /\ inflight' = [inflight EXCEPT ![c] =
                    IF ServicesPUTCheck(id, body) # 0 THEN NoRequest
                    ELSE [route |-> "ServicesPUT", id |-> id,
                          data |-> ServicesPUTData(body)]]
  /\ UNCHANGED <<db, userSide, adminSide, page, nextUserId, services, uServices,
                 response>>

\* the update of the handler
ServicesPUTWrite(c) ==
  /\ inflight[c].route = "ServicesPUT"
  /\ services' = ServicesUpdate(inflight[c].id, inflight[c].data).services
  /\ inflight' = [inflight EXCEPT ![c] = NoRequest]
  /\ UNCHANGED <<db, userSide, adminSide, writes, page, nextUserId, uServices,
                 response>>

\* ---- requests the routes answer with 500 ------------------------------------
\* Every route handler runs in try / catch: when a database call throws, the
\* catch block answers 500 and the tables are as they were.

\* POST /api/orders answers 500: `if (!orderRes.ok) throw`, the catch block of
\* handleOrderSubmit reports the failure and the handler ends
handleOrderSubmitRejected(s, serviceId, quantity) ==
  LET selectedService == uServices[s][serviceId]
      charge == Charge(quantity, selectedService.rate)
  IN /\ uPc[s] = "idle"
     /\ serviceId \in DOMAIN uServices[s]
     /\ selectedService.status = "ACTIVE"
     /\ quantity >= selectedService.minOrder
     /\ quantity <= selectedService.maxOrder
     /\ charge <= uUser[s].balance
     /\ Served
     /\ UNCHANGED <<db, userSide, adminSide, page, other>>

\* a handler that sends the balance request again after a 500 answer
OrderDeductBalanceRejected_Retry(s) ==
  /\ uPc[s] = "deduct"
  /\ Served
  /\ UNCHANGED <<db, uPc, uUser, uOrder, adminSide, page, other>>

\* PUT /api/users answers 500: the response is not read, the handler goes on
OrderDeductBalanceRejected(s) ==
  /\ uPc[s] = "deduct"
  /\ Served
  /\ uPc' = [uPc EXCEPT ![s] = "log"]
  /\ UNCHANGED <<db, uUser, uOrder, adminSide, page, other>>

\* POST /api/transactions answers 500: the response is not read, the handler
\* reports success
OrderCreateTransactionRejected(s) ==
  /\ uPc[s] = "log"
  /\ Served
  /\ uPc' = [uPc EXCEPT ![s] = "refresh"]
  /\ uOrder' = [uOrder EXCEPT ![s] = NoOrder]
  /\ UNCHANGED <<db, uUser, adminSide, page, other>>

\* the same for the three write requests of handleRefund, none of which is read
RefundUpdateBalanceRejected(a) ==
  /\ aPc[a] = "refPut"
  /\ Served
  /\ aPc' = [aPc EXCEPT ![a] = "refLog"]
  /\ UNCHANGED <<db, userSide, editingUser, editingOrder, aLocal, page, other>>

RefundCreateTransactionRejected(a) ==
  /\ aPc[a] = "refLog"
  /\ Served
  /\ aPc' = [aPc EXCEPT ![a] = "refStatus"]
  /\ UNCHANGED <<db, userSide, editingUser, editingOrder, aLocal, page, other>>

RefundUpdateStatusRejected(a) ==
  /\ aPc[a] = "refStatus"
  /\ Served
  /\ aPc' = [aPc EXCEPT ![a] = "refresh"]
  /\ aLocal' = [aLocal EXCEPT ![a] = NoLocal]
  /\ UNCHANGED <<db, userSide, editingUser, editingOrder, page, other>>

\* the update of PUT /api/users throws: the catch block answers 500 and the
\* table is as it was
UsersPUTWriteRejected(c) ==
  /\ inflight[c].route = "UsersPUT"
  /\ response' = UsersResponse(c, UsersRejected(500))
  /\ inflight' = [inflight EXCEPT ![c] = NoRequest]
  /\ UNCHANGED <<db, userSide, adminSide, writes, page, nextUserId, services,
                 uServices>>

\* ---- specifications --------------------------------------------------------
\* the handlers of the browser components of the sessions U and A
Components(U, A) ==
  \/ \E s \in U, q \in Quantities : handleOrderSubmit(s, 1, q)
  \/ \E s \in U : OrderDeductBalance(s)
  \/ \E s \in U : OrderCreateTransaction(s)
  \/ \E s \in U : fetchUser(s)
  \/ \E a \in A, u \in 1 .. MaxUsers : selectUser(a, u)
  \/ \E a \in A, type \in {"add", "deduct"}, amount \in Amounts :
        handleBalanceUpdate(a, type, amount)
  \/ \E a \in A : BalanceCreateTransaction(a)
  \/ \E a \in A : fetchData(a)
  \/ \E a \in A, o \in 1 .. MaxOrders : selectOrder(a, o)
  \/ \E a \in A, status \in StatusOptions : handleStatusUpdate(a, status)
  \/ \E a \in A : handleRefund(a)
  \/ \E a \in A : RefundUpdateBalance(a)
  \/ \E a \in A : RefundCreateTransaction(a)
  \/ \E a \in A : RefundUpdateStatus(a)

\* requests of any other client
Requests ==
  \/ \E balance \in BodyBalances : RequestUsersPOST(balance)
  \/ \E id \in 1 .. MaxUsers, balance \in BodyBalances : RequestUsersPUT(id, balance)
  \/ \E order \in BodyOrders :
        RequestOrdersPOST(1, 1, order.quantity, order.charge)
  \/ \E id \in 1 .. MaxWrites : RequestTransactionsDELETE(id)

\* two browser sessions of the user, one admin and any other client, from the
\* funded wallet
Next == Components(UserSessions, MainAdmins) \/ Requests

Spec == Init /\ [][Next]_vars

\* one browser session of the user, one admin and any other client, from the
\* funded wallet
NextWallet == Components({"u1"}, MainAdmins) \/ Requests

SpecWallet == Init /\ [][NextWallet]_vars

\* the browser components alone, two sessions of the user and two admins, from
\* the placed order
NextComponents == Components(UserSessions, AdminSessions)

SpecComponents == InitOrdered /\ [][NextComponents]_vars

\* the write requests of an order placement and of a refund answered with 500
Rejections(U, A) ==
  \/ \E s \in U, q \in Quantities : handleOrderSubmitRejected(s, 1, q)
  \/ \E s \in U : OrderDeductBalanceRejected(s)
  \/ \E s \in U : OrderCreateTransactionRejected(s)
  \/ \E a \in A : RefundUpdateBalanceRejected(a)
  \/ \E a \in A : RefundCreateTransactionRejected(a)
  \/ \E a \in A : RefundUpdateStatusRejected(a)

\* one browser session of the user and one admin, any of whose write requests
\* may be answered with 500, from the placed order
NextRejections == Components({"u1"}, MainAdmins) \/ Rejections({"u1"}, MainAdmins)

SpecRejections == InitOrdered /\ [][NextRejections]_vars

\* the tables after n rounds of: the admin adds 2 to the wallet of user 1, the
\* user orders 1000 units of service 1 (InitOrdered is round 1)
OrderRows(n) ==
  [i \in 1 .. n |->
     [FirstOrder EXCEPT !.id = i]]

TransactionRows(n) ==
  {[id |-> 2 * i - 1, userId |-> 1, type |-> "ADMIN_ADJUSTMENT", amount |-> 2,
    balanceBefore |-> i - 1, balanceAfter |-> i + 1, orderId |-> Null] :
     i \in 1 .. n} \cup
  {[id |-> 2 * i, userId |-> 1, type |-> "ORDER", amount |-> -1,
    balanceBefore |-> i + 1, balanceAfter |-> i, orderId |-> i] : i \in 1 .. n}

InitList ==
  \E n \in 0 .. MaxRows :
    /\ users = FirstUser(n)
    /\ nextUserId = 2
    /\ services = FirstServices
    /\ orders = OrderRows(n)
    /\ transactions = TransactionRows(n)
    /\ nextTransactionId = 2 * n + 1
    /\ Mounted(n)

\* list requests of any client on tables of up to MaxRows orders
NextList ==
  \/ \E param \in Limits, dropped \in BOOLEAN : RequestOrdersGET(param, dropped)
  \/ \E param \in Limits, dropped \in BOOLEAN :
        RequestTransactionsGET(param, dropped)

SpecList == InitList /\ [][NextList]_vars

\* the catalogue and the orders: one browser session of the user, the admin's
\* service requests and the order and ledger requests of any client, from the
\* funded wallet
NextCatalog ==
  \/ fetchServices("u1")
  \/ \E id \in 1 .. MaxServices, q \in Quantities : handleOrderSubmit("u1", id, q)
  \/ OrderDeductBalance("u1")
  \/ OrderCreateTransaction("u1")
  \/ fetchUser("u1")
  \/ \E body \in BodyServices : RequestServicesPOST(body)
  \/ \E c \in Clients, id \in 1 .. MaxServices, body \in BodyServiceUpdates :
        ServicesPUTRead(c, id, body)
  \/ \E c \in Clients : ServicesPUTWrite(c)
  \/ \E userId \in 1 .. MaxUsers, id \in 1 .. MaxServices :
        RequestOrdersPOST(userId, id, 1000, 1)
  \/ \E body \in BodyEntries :
        RequestTransactionsPOST([userId |-> 1, type |-> body.type,
                                 amount |-> body.amount,
                                 balanceBefore |-> Num(users[1].balance),
                                 balanceAfter |->
                                   Num(users[1].balance + body.amount.value),
                                 orderId |-> Null])

SpecCatalog == Init /\ [][NextCatalog]_vars

\* the orders: one browser session of the user, the order updates of one
\* admin, the order requests of any client and the creation of services, from
\* the funded wallet
NextOrders ==
  \/ fetchServices("u1")
  \/ \E id \in 1 .. MaxServices, q \in Quantities : handleOrderSubmit("u1", id, q)
  \/ OrderDeductBalance("u1")
  \/ OrderCreateTransaction("u1")
  \/ fetchUser("u1")
  \/ \E body \in BodyServices : RequestServicesPOST(body)
  \/ \E userId \in 1 .. MaxUsers, id \in 1 .. MaxServices :
        RequestOrdersPOST(userId, id, 1000, 1)
  \/ \E id \in 1 .. MaxOrders, body \in BodyOrderUpdates : RequestOrdersPUT(id, body)
  \/ \E o \in 1 .. MaxOrders : selectOrder("a1", o)
  \/ \E status \in StatusOptions : handleStatusUpdate("a1", status)
  \/ fetchData("a1")

SpecOrders == Init /\ [][NextOrders]_vars

\* the accounts: user creation, registration and update requests of two
\* clients, served at once, from the funded wallet
NextAccounts ==
  \/ \E c \in Clients, email \in RawEmails :
        UsersPOSTRead(c, [email |-> email, password |-> "secret2",
                          status |-> "undefined", balance |-> Undefined])
  \/ \E c \in Clients : UsersPOSTWrite(c)
  \/ \E c \in Clients, id \in 1 .. MaxUsers, body \in BodyEmailUpdates :
        UsersPUTRead(c, id, body)
  \/ \E c \in Clients : UsersPUTWrite(c)
  \/ \E c \in Clients, email \in RawEmails : registerRead(c, email, "secret2")
  \/ \E c \in Clients : registerWrite(c)

SpecAccounts == Init /\ [][NextAccounts]_vars

\* the users endpoint and login: the requests of one client, from the funded
\* wallet
NextSessions ==
  \/ \E password \in {"secret2", "short"} :
        UsersPOSTRead("c1", [email |-> <<" ", "b", "@", "x", ".", "y", " ">>,
                             password |-> password, status |-> "undefined",
                             balance |-> Undefined])
  \/ UsersPOSTWrite("c1")
  \/ \E id \in 1 .. MaxUsers, body \in BodyUserUpdates : UsersPUTRead("c1", id, body)
  \/ UsersPUTWrite("c1")
  \/ \E id \in 1 .. MaxUsers, enforced \in BOOLEAN :
        RequestUsersDELETE("c1", id, enforced)
  \/ \E id \in 1 .. MaxUsers : RequestUsersGET("c1", id)
  \/ RequestUsersList("c1")
  \/ \E email \in LoginEmails, password \in RawPasswords :
        RequestLogin("c1", email, password)

SpecSessions == Init /\ [][NextSessions]_vars

\* the write requests the running handlers of the sessions have still to make
Outstanding ==
  LET left(pc) == CASE pc \in {"refPut"} -> 3
                    [] pc \in {"deduct", "refLog"} -> 2
                    [] pc \in {"log", "adjLog", "refStatus"} -> 1
                    [] OTHER -> 0
  IN left(uPc["u1"]) + left(aPc["a1"])

\* a handler that makes n write requests is called when the run can serve
\* them and those of the running handlers
Room(n) == writes + Outstanding + n <= MaxWrites

\* one browser session of the user, one admin and one client of the users
\* route; each request is answered, with 500 when its database call throws
NextTermination ==
  \/ Room(3) /\ \E q \in Quantities : handleOrderSubmit("u1", 1, q)
  \/ Room(3) /\ \E q \in Quantities : handleOrderSubmitRejected("u1", 1, q)
  \/ OrderDeductBalance("u1")
  \/ OrderDeductBalanceRejected("u1")
  \/ OrderCreateTransaction("u1")
  \/ OrderCreateTransactionRejected("u1")
  \/ fetchUser("u1")
  \/ \E u \in 1 .. MaxUsers : selectUser("a1", u)
  \/ Room(2) /\ \E type \in {"add", "deduct"}, amount \in Amounts :
                   handleBalanceUpdate("a1", type, amount)
  \/ BalanceCreateTransaction("a1")
  \/ \E o \in 1 .. MaxOrders : selectOrder("a1", o)
  \/ Room(3) /\ handleRefund("a1")
  \/ RefundUpdateBalance("a1")
  \/ RefundUpdateBalanceRejected("a1")
  \/ RefundCreateTransaction("a1")
  \/ RefundCreateTransactionRejected("a1")
  \/ RefundUpdateStatus("a1")
  \/ RefundUpdateStatusRejected("a1")
  \/ fetchData("a1")
  \/ Room(1) /\ \E id \in 1 .. MaxUsers : UsersPUTRead("c1", id, [status |-> "SUSPENDED"])
  \/ UsersPUTWrite("c1")
  \/ UsersPUTWriteRejected("c1")

\* an awaited request is answered, and the handler that awaits it goes on
Answered ==
  /\ WF_vars(OrderDeductBalance("u1") \/ OrderDeductBalanceRejected("u1"))
  /\ WF_vars(OrderCreateTransaction("u1") \/ OrderCreateTransactionRejected("u1"))
  /\ WF_vars(uPc["u1"] = "refresh" /\ fetchUser("u1"))
  /\ WF_vars(BalanceCreateTransaction("a1"))
  /\ WF_vars(RefundUpdateBalance("a1") \/ RefundUpdateBalanceRejected("a1"))
  /\ WF_vars(RefundCreateTransaction("a1") \/ RefundCreateTransactionRejected("a1"))
  /\ WF_vars(RefundUpdateStatus("a1") \/ RefundUpdateStatusRejected("a1"))
  /\ WF_vars(fetchData("a1"))
  /\ WF_vars(UsersPUTWrite("c1") \/ UsersPUTWriteRejected("c1"))

SpecTermination == InitOrdered /\ [][NextTermination]_vars /\ Answered

\* ---- properties ------------------------------------------------------------
\* C1: in every state the stored balance of every account equals the sum of
\* the signed amounts of the ledger entries of that account.
Conservation ==
  \A u \in DOMAIN users : users[u].balance = SumAmounts(Entries(u))

\* C2: no stored balance is ever below 0.
NonNegativity == \A u \in DOMAIN users : users[u].balance >= 0

\* an order charge that used up the whole wallet has been applied and logged
NonNegativityWitness ==
  /\ users[1].balance = 0
  /\ \E t \in transactions : t.type = "ORDER" /\ t.userId = 1 /\ t.balanceAfter = 0

\* C3: in every state each stored order is referenced by exactly one ledger
\* entry of type ORDER.
ExactlyOneCharge ==
  \A i \in DOMAIN orders : Cardinality(EntriesOf(orders[i].id, "ORDER")) = 1

\* C4: an order is referenced by at most one ledger entry of type REFUND,
\* however often and from however many sessions it is refunded.
AtMostOneRefund ==
  \A i \in DOMAIN orders : Cardinality(EntriesOf(orders[i].id, "REFUND")) <= 1

\* C5: an order whose charge exceeds the stored balance of its account at the
\* time it is placed is not stored: a step that adds an order row adds one
\* whose charge the stored balance covers.
InsufficientFundsAtomic ==
  [][Len(orders') > Len(orders) =>
       orders'[Len(orders')].charge <= users[orders'[Len(orders')].userId].balance]_vars

\* C6: of two order placements running at once on one account whose stored
\* balance does not cover both charges, at most one has created its order.
OneOfTwoConcurrentOrders ==
  \A s1, s2 \in UserSessions :
    (/\ s1 # s2
     /\ uPc[s1] = "deduct" /\ uPc[s2] = "deduct"
     /\ uUser[s1].id = uUser[s2].id)
    => uOrder[s1].charge + uOrder[s2].charge <= users[uUser[s1].id].balance

\* C7: every balance write of an order placement, a refund or an admin
\* adjustment stores the balance that was stored just before it plus the
\* amount of the operation.
NoLostUpdate ==
  [][/\ \A s \in UserSessions :
          (uPc[s] = "deduct" /\ uPc'[s] = "log") =>
            users'[uUser[s].id].balance
              = users[uUser[s].id].balance - uOrder[s].charge
     /\ \A a \in AdminSessions :
          (aPc[a] = "refPut" /\ aPc'[a] = "refLog") =>
            users'[aLocal[a].userId].balance
              = users[aLocal[a].userId].balance + aLocal[a].amount
     /\ \A a \in AdminSessions :
          (aPc[a] = "idle" /\ aPc'[a] = "adjLog") =>
            users'[aLocal'[a].userId].balance
              = users[aLocal'[a].userId].balance + aLocal'[a].amount]_vars

\* C8: a step changes the stored balance of an account only together with a
\* new ledger entry of that account for the amount of the change; a PUT on
\* the users endpoint alone never changes it.
BalanceOnlyWithEntry ==
  [][\A u \in DOMAIN users :
       users'[u].balance # users[u].balance =>
         \E t \in transactions' \ transactions :
           t.userId = u /\ t.amount = users'[u].balance - users[u].balance]_vars

\* C9: no step changes a field of a stored ledger entry, and every step but
\* the DELETE request on the transactions endpoint keeps every stored entry.
AppendOnly ==
  [][/\ \A t \in transactions : \A t2 \in transactions' : t2.id = t.id => t2 = t
     /\ \/ \E id \in 1 .. MaxWrites : RequestTransactionsDELETE(id)
        \/ transactions \subseteq transactions']_vars

\* an order charge was logged next to the earlier adjustment entry
AppendOnlyWitness ==
  /\ FirstAdjustment \in transactions
  /\ \E t \in transactions : t.type = "ORDER" /\ t.id > FirstAdjustment.id

\* C10: a step of a refund taken while the stored status of the order is
\* neither PENDING nor PROCESSING changes no balance, no ledger entry and no
\* order.
RefundOnlyPendingOrProcessing ==
  [][\A a \in AdminSessions :
       (/\ aPc[a] \in {"refPut", "refLog", "refStatus"}
        /\ aPc'[a] # aPc[a]
        /\ orders[aLocal[a].orderId].status \notin {"PENDING", "PROCESSING"})
       => (users' = users /\ transactions' = transactions /\ orders' = orders)]_vars

\* C11: a step changes the status of a stored order only along PENDING ->
\* PROCESSING, CANCELLED or REFUNDED and PROCESSING -> COMPLETED, PARTIAL or
\* REFUNDED; the status of a COMPLETED, CANCELLED or REFUNDED order never changes.
StatusTransitions ==
  [][\A i \in DOMAIN orders :
       orders'[i].status # orders[i].status =>
         <<orders[i].status, orders'[i].status>> \in
           {<<"PENDING", "PROCESSING">>, <<"PENDING", "CANCELLED">>,
            <<"PENDING", "REFUNDED">>, <<"PROCESSING", "COMPLETED">>,
            <<"PROCESSING", "PARTIAL">>, <<"PROCESSING", "REFUNDED">>}]_vars

\* C12: the step of a refund that credits the stored balance credits exactly
\* the charge of the order, adds one REFUND entry of that amount referencing
\* the order and leaves the order REFUNDED; in no state has an order a REFUND
\* entry without being REFUNDED, or the reverse.
RefundAtomic ==
  [][/\ \A a \in AdminSessions :
          (aPc[a] = "refPut" /\ aPc'[a] = "refLog") =>
            LET l == aLocal[a]
            IN /\ users'[l.userId].balance
                    = users[l.userId].balance + orders[l.orderId].charge
               /\ \E t \in transactions' \ transactions :
                     /\ t.type = "REFUND" /\ t.orderId = l.orderId
                     /\ t.amount = orders[l.orderId].charge
               /\ orders'[l.orderId].status = "REFUNDED"
     /\ \A i \in DOMAIN orders' :
          (orders'[i].status = "REFUNDED")
            <=> (\E t \in transactions' :
                   t.type = "REFUND" /\ t.orderId = orders'[i].id)]_vars

\* C13: an order placement called on an account whose stored balance b covers
\* the charge c creates an order with status PENDING and charge c, stores the
\* balance b - c and adds one ORDER entry referencing the order with amount
\* -c, balanceBefore b and balanceAfter b - c.
PlaceOrderResult ==
  [][\A s \in UserSessions :
       /\ (uPc[s] = "idle" /\ uPc'[s] = "deduct") =>
            /\ orders'[uOrder'[s].order].status = "PENDING"
            /\ orders'[uOrder'[s].order].charge = uOrder'[s].charge
       /\ (uPc[s] = "deduct" /\ uPc'[s] = "log"
           /\ uOrder[s].charge <= uOrder[s].stored) =>
            users'[uUser[s].id].balance = uOrder[s].stored - uOrder[s].charge
       /\ (uPc[s] = "log" /\ uPc'[s] = "refresh"
           /\ uOrder[s].charge <= uOrder[s].stored) =>
            \E t \in transactions' \ transactions :
              /\ t.type = "ORDER" /\ t.orderId = uOrder[s].order
              /\ t.amount = 0 - uOrder[s].charge
              /\ t.balanceBefore = uOrder[s].stored
              /\ t.balanceAfter = uOrder[s].stored - uOrder[s].charge]_vars

\* C14: the quantity of every stored order lies within minOrder .. maxOrder of
\* its service.
QuantityInRange ==
  \A i \in DOMAIN orders :
    /\ services[orders[i].serviceId].minOrder <= orders[i].quantity
    /\ orders[i].quantity <= services[orders[i].serviceId].maxOrder

\* C15: the charge of every stored order is quantity / 1000 * rate of its
\* service.
ChargeDerived ==
  \A i \in DOMAIN orders :
    orders[i].charge = Charge(orders[i].quantity, services[orders[i].serviceId].rate)

\* C16: a list response holds at most 100 rows, and at most 10 when the
\* request gave no limit.
PageBounded ==
  /\ page.rows <= 100
  /\ page.limit = Undefined => page.rows <= 10

\* C17: every ledger entry a step adds has balanceAfter = balanceBefore +
\* amount, its balanceAfter is the stored balance of the account after the
\* step, and its balanceBefore is the balanceAfter of the latest earlier entry
\* of the account.
LedgerChain ==
  [][\A t \in transactions' \ transactions :
       /\ t.balanceAfter = t.balanceBefore + t.amount
       /\ t.userId \in DOMAIN users' => users'[t.userId].balance = t.balanceAfter
       /\ \A p \in Entries(t.userId) :
            (\A q \in Entries(t.userId) : q.id <= p.id)
              => t.balanceBefore = p.balanceAfter]_vars

\* C18: when a write request of an order placement or of a refund is
\* rejected, the handler ends there with a failure: it neither goes on to its
\* next request nor reports success.
NoSilentFailure ==
  [][/\ \A s \in UserSessions :
          (\/ \E q \in Quantities : handleOrderSubmitRejected(s, 1, q)
           \/ OrderDeductBalanceRejected(s)
           \/ OrderCreateTransactionRejected(s)) => uPc'[s] = "idle"
     /\ \A a \in AdminSessions :
          (\/ RefundUpdateBalanceRejected(a)
           \/ RefundCreateTransactionRejected(a)
           \/ RefundUpdateStatusRejected(a)) => aPc'[a] = "idle"]_vars

CancelledIsRefunded ==
  \A i \in DOMAIN orders :
    orders[i].status \in {"CANCELLED", "REFUNDED"}
      => EntriesOf(orders[i].id, "REFUND") # {}

\* C22: an order request that names a user or a service that is not stored
\* stores no order, and the row any step adds to the orders names a stored
\* user and a stored service.
OrderReferencesExist ==
  [][/\ Len(orders') > Len(orders) =>
          /\ orders'[Len(orders')].userId \in DOMAIN users
          /\ orders'[Len(orders')].serviceId \in DOMAIN services
     /\ \A userId \in 1 .. MaxUsers, id \in 1 .. MaxServices :
          (/\ RequestOrdersPOST(userId, id, 1000, 1)
           /\ (userId \notin DOMAIN users \/ id \notin DOMAIN services))
          => orders' = orders]_vars

\* an order request naming user 1 and the service created second has stored
\* its row, while user 2 is not stored
OrderReferencesExistWitness ==
  /\ 2 \notin DOMAIN users
  /\ \E i \in DOMAIN orders : orders[i].serviceId = 2 /\ orders[i].userId = 1

\* C23: the service of the row a step adds to the orders has the stored
\* status ACTIVE at that step.
ActiveServiceOnly ==
  [][Len(orders') > Len(orders) =>
       services[orders'[Len(orders')].serviceId].status = "ACTIVE"]_vars

\* C24: every stored ledger entry of type ORDER has a negative amount and
\* every stored entry of type DEPOSIT or REFUND a positive amount.
SignConvention ==
  \A t \in transactions :
    /\ t.type = "ORDER" => t.amount < 0
    /\ t.type \in {"DEPOSIT", "REFUND"} => t.amount > 0

\* C25: no step changes the userId, the serviceId, the link, the quantity or
\* the charge of a stored order; the PUT request on the orders endpoint
\* changes none of them whatever its body carries.
OrderUpdateFrame ==
  [][\A i \in DOMAIN orders :
       /\ i \in DOMAIN orders'
       /\ orders'[i].userId = orders[i].userId
       /\ orders'[i].serviceId = orders[i].serviceId
       /\ orders'[i].link = orders[i].link
       /\ orders'[i].quantity = orders[i].quantity
       /\ orders'[i].charge = orders[i].charge]_vars

\* the update whose body carried charge 3, quantity 3000, userId 2 and remains
\* 5 was applied to an order
OrderUpdateFrameWitness ==
  \E i \in DOMAIN orders :
    /\ orders[i].remains = Num(5)
    /\ orders[i].charge = 1 /\ orders[i].quantity = 1000 /\ orders[i].userId = 1

\* C27: every stored service has rate > 0, minOrder > 0 and maxOrder >
\* minOrder.
ServiceLimits ==
  \A id \in DOMAIN services :
    /\ services[id].rate > 0
    /\ services[id].minOrder > 0
    /\ services[id].maxOrder > services[id].minOrder

\* C26: in every state no two stored users have the same trimmed, lower-cased
\* email; and the write of a user creation, a registration or a user update
\* whose email another stored user has stores nothing and fails.
EmailUnique ==
  /\ [](\A u, v \in DOMAIN users :
          u # v => trim(toLowerCase(users[u].email))
                     # trim(toLowerCase(users[v].email)))
  /\ [][\A c \in Clients :
          (/\ inflight[c].route \in {"UsersPOST", "UsersPUT", "register"}
           /\ inflight'[c] = NoRequest
           /\ "email" \in DOMAIN inflight[c].data
           /\ \E u \in DOMAIN users :
                u # inflight[c].id /\ users[u].email = inflight[c].data.email)
          => (users' = users /\ ~response'[c].success)]_vars

\* two users are stored, and a creation or an update that had passed its
\* lookup while another request was being served was answered 500
EmailUniqueWitness ==
  /\ Cardinality(DOMAIN users) = 2
  /\ \E c \in Clients : response[c].status = 500

\* C28: a login with an email no stored user has, with a password that does
\* not match the stored hash, or for a user whose stored status is not ACTIVE
\* returns success = false and sets no cookie.
LoginOnlyActive ==
  [][\A email \in LoginEmails, password \in RawPasswords :
       (/\ RequestLogin("c1", email, password)
        /\ ~\E u \in DOMAIN users :
              /\ users[u].email = trim(toLowerCase(email))
              /\ bcryptCompare(password, users[u].password)
              /\ users[u].status = "ACTIVE")
       => (~response'["c1"].success /\ response'["c1"].cookie = NoCookie)]_vars

\* the account created second has logged in while the first is suspended
LoginOnlyActiveWitness ==
  /\ 1 \in DOMAIN users
  /\ users[1].status = "SUSPENDED"
  /\ response["c1"].success
  /\ response["c1"].cookie = generateToken([id |-> 2, email |-> EmailOf(2)])

\* C29: no user object of a response of the users endpoint has a password
\* field.
NoPasswordInResponse ==
  \A c \in Clients : \A o \in response[c].body : "password" \notin DOMAIN o

\* the list response holds both stored users, each of which has a stored hash
NoPasswordInResponseWitness ==
  /\ Cardinality(DOMAIN users) = 2
  /\ response["c1"].body = UsersList
  /\ \A u \in DOMAIN users : users[u].password \in {bcryptHash(p) : p \in RawPasswords}

\* C21: every order placement, refund and balance adjustment that was
\* started ends, and every request a route handler is serving is answered,
\* also when requests are answered with 500.
Termination ==
  /\ (uPc["u1"] # "idle") ~> (uPc["u1"] = "idle")
  /\ (aPc["a1"] # "idle") ~> (aPc["a1"] = "idle")
  /\ (inflight["c1"] # NoRequest) ~> (inflight["c1"] = NoRequest)

\* an order placement has ended although its balance request was answered
\* with 500: the second order is stored, no ledger entry names it and the
\* balance is as it was
TerminationWitness ==
  /\ uPc["u1"] = "idle"
  /\ Len(orders) = 2
  /\ EntriesOf(2, "ORDER") = {}
  /\ users[1].balance = 1
  /\ writes >= 3
====
